---- MODULE Spec2Model ----
(***************************************************************************)
(* The layer store and undo/redo history of the useCanvas hook             *)
(* (src/src/hooks/useCanvas.ts), as a state machine.                       *)
(*                                                                         *)
(* React semantics the model keeps:                                        *)
(*  - the callbacks of the hook read the values of the LAST RENDER         *)
(*    (layers, selectedLayerId, history, historyIndex, isBatchingActions   *)
(*    below are those values: what the hook returned and what its closures *)
(*    captured);                                                           *)
(*  - every setX call is queued; React applies the queue in order at the   *)
(*    next render.  `queued` is the state that results from the updates    *)
(*    queued so far: it is the `prev` the next updater function receives;  *)
(*  - Render commits `queued` and rebuilds the closures.                   *)
(* A handler of the embedding application may call the hook several times  *)
(* before React renders again (limits.calls bounds how many).              *)
(***************************************************************************)
EXTENDS Integers, Sequences, FiniteSets, TLC

VARIABLES
    layers,               \* useState<Layer[]>: value of the last render
    selectedLayerId,      \* useState<string | null>: value of the last render
    history,              \* useState<HistoryAction[]>: value of the last render
    historyIndex,         \* useState<number>: value of the last render (0-based, -1 = none)
    isBatchingActions,    \* useState<boolean>: value of the last render
    queued,               \* the five states above after the updates queued since the last render
    isUndoRedoInProgress, \* useRef<boolean>
    now,                  \* the last reading of Date.now()
    autoSave,             \* option autoSave (fixed at construction)
    onChangeStable,       \* option onChange: is it the same function at every render?
    debounced,            \* the running timers of debouncedOnChange, oldest first, each
                          \* with the argument of the last call made to its instance
    out,                  \* what the last call did towards its caller: onChange calls, throw, return value
    calls,                \* hook calls made by the running handler since the last render
    total,                \* hook calls made in all
    limits,               \* exploration limits fixed by the initial state
    nrec,                 \* history actions recorded so far (each entry carries its number as seq)
    nundo,                \* undo calls counted against limits.undos
    run,                  \* recordings made one per render, in a row, since the last undo/redo
    law,                  \* tracker of "one recorded action A; undo(); redo()"
    sc3,                  \* tracker of scenario 3: addLayer; addLayer; undo; undo from an empty hook
    canvas                \* the CityCanvas component: its layers state, its refs, the PIXI stage

vars == <<layers, selectedLayerId, history, historyIndex, isBatchingActions, queued,
          isUndoRedoInProgress, now, autoSave, onChangeStable, debounced, out, calls,
          total, limits,
          nrec, nundo, run, law, sc3, canvas>>

\* the variables of the useCanvas hook
hookVars == <<layers, selectedLayerId, history, historyIndex, isBatchingActions, queued,
              isUndoRedoInProgress, now, autoSave, onChangeStable, debounced, out,
              calls, total, limits, nrec, nundo, run, law, sc3>>

----------------------------------------------------------------------------
(* Program constants and bounds *)

MAX_HISTORY_SIZE == 20

\* readings of the clock: 0..MaxClock
MaxClock == 1

\* hook calls one handler makes before React renders again
MaxCalls == 2

\* hook calls explored in all
MaxTotal == 4

\* the same for the capacity specification, and the undo calls among them
MaxCapTotal == 44

MaxCapUndos == 1

\* hook calls explored with the unrestricted inputs
MaxAnyTotal == 3

\* hook calls explored from two initial layers
MaxTwoTotal == 3

\* runs of the render effect of CityCanvas (the mount included)
MaxTriggers == 3

\* hook calls explored with CityCanvas mounted
MaxAppTotal == 2

----------------------------------------------------------------------------
(* JavaScript values *)

null == "null"

nullLayer == [null |-> TRUE]

Min(a, b) == IF a < b THEN a ELSE b

Max(a, b) == IF a > b THEN a ELSE b

\* Array.prototype.slice(start, end): negative indices count from the end.
Slice(arr, start, end) ==
    LET len == Len(arr)
        rel(k) == IF k < 0 THEN Max(len + k, 0) ELSE Min(k, len)
    IN  SubSeq(arr, rel(start) + 1, rel(end))

\* arr[i] with a 0-based index: <<>> stands for undefined.
At(arr, i) == IF i >= 0 /\ i < Len(arr) THEN <<arr[i + 1]>> ELSE <<>>

\* Object spread { ...a, ...b }
Merge(a, b) ==
    [f \in (DOMAIN a) \cup (DOMAIN b) |-> IF f \in DOMAIN b THEN b[f] ELSE a[f]]

\* layers.find(layer => layer.id === id): <<>> stands for undefined.
Find(ls, id) ==
    IF \E i \in 1..Len(ls) : ls[i].id = id
    THEN <<ls[CHOOSE i \in 1..Len(ls) :
                  ls[i].id = id /\ \A j \in 1..(i - 1) : ls[j].id # id]>>
    ELSE <<>>

\* prev.filter(layer => layer.id !== id)
FilterOut(ls, id) == SelectSeq(ls, LAMBDA l : l.id # id)

\* prev.map(layer => layer.id === id ? { ...layer, ...patch } : layer)
MergeInto(ls, id, patch) ==
    [i \in 1..Len(ls) |-> IF ls[i].id = id THEN Merge(ls[i], patch) ELSE ls[i]]

\* `layer_${Date.now()}`
LayerId(t) == "layer_" \o ToString(t)

----------------------------------------------------------------------------
(* Inputs *)

Position1 == [x |-> 100, y |-> 100]

Position2 == [x |-> 10, y |-> 20]

\* Omit<Layer, 'id'> values handed to addLayer
LayerSpecs ==
    { [type |-> "house", position |-> Position1, scale |-> 1, opacity |-> 1,
       zIndex |-> 0, locked |-> FALSE, visible |-> TRUE, version |-> 1,
       texturePath |-> "/a.svg"] }

\* ids a caller may pass: every id addLayer can have produced and one it cannot
IdInputs == { LayerId(t) : t \in 0..MaxClock } \cup { "nonexistent" }

\* Partial<Layer> values handed to updateLayer
Updates == { [rotation |-> 1] }

\* positions handed to moveLayer
Positions == { Position2 }

\* Omit<Layer, 'id'> values as the type admits them: scale and opacity are
\* any number
AnyLayerSpecs ==
    { [newLayer EXCEPT !.scale = sc, !.opacity = op] :
          newLayer \in LayerSpecs, sc \in {0, 1}, op \in {-1, 1, 2} }

\* Partial<Layer> values as the type admits them: id and type are fields of
\* Layer like any other
AnyUpdates == Updates \cup { [id |-> "layer_x"], [type |-> "road"] }

\* orderedIds handed to reorderLayers: the ids of the rendered layers, in any
\* order, some possibly omitted
OrderInputs ==
    LET ids == { layers[i].id : i \in 1..Len(layers) }
    IN  { <<>> } \cup { <<a>> : a \in ids }
                 \cup { <<a, b>> : a \in ids, b \in ids }

----------------------------------------------------------------------------
(* Trackers of the call sequences the properties speak about.  They record *)
(* what was called; no operation of the hook reads them.                   *)

NoLaw == [stage |-> 0, op |-> "", pre |-> <<>>, post |-> <<>>, hi |-> -1]

Mutators == { "addLayer", "removeLayer", "updateLayer", "moveLayer",
              "reorderLayers", "clearLayers" }

\* stage 1: a single recorded mutation A was made from a rendered state
\* (pre = the collection before it, post = the collection after it,
\* hi = historyIndex after it); stage 2: undo() was called right after it;
\* stage 3: redo() was called right after that undo().
LawAfter(name, q, recorded, effective) ==
    IF name \in Mutators /\ calls = 0 /\ recorded /\ effective
    THEN [stage |-> 1, op |-> name, pre |-> layers, post |-> q.layers,
          hi |-> q.historyIndex]
    ELSE IF name = "undo" /\ calls = 0 /\ effective /\ law.stage = 1
    THEN [law EXCEPT !.stage = 2]
    ELSE IF name = "redo" /\ calls = 0 /\ effective /\ law.stage = 2
    THEN [law EXCEPT !.stage = 3]
    ELSE NoLaw

\* 1: addLayer(X) was called on a hook with no layer, an empty log and batching
\* closed; 2: then addLayer(Y); 3: then undo(); 4: then undo(); each call from
\* a rendered state.  Any other call leaves the scenario (0).
Sc3After(name) ==
    IF calls # 0 THEN 0
    ELSE IF name = "addLayer" /\ sc3 = 1 THEN 2
    ELSE IF name = "addLayer" /\ layers = <<>> /\ history = <<>> /\ ~isBatchingActions
    THEN 1
    ELSE IF name = "undo" /\ sc3 \in {2, 3} THEN sc3 + 1
    ELSE 0

RunAfter(name, recorded, effective) ==
    IF recorded /\ calls = 0 THEN run + 1
    ELSE IF recorded \/ (name \in {"undo", "redo"} /\ effective) THEN 0
    ELSE run

----------------------------------------------------------------------------
(* The pieces every operation is built from *)

\* setLayers(value)
SetLayers(q, value) == [q EXCEPT !.layers = value]

\* handleLayerChange, its state part: setLayers(newLayers).  Its onChange part
\* is in Call: the collections one call hands to handleLayerChange go to
\* debouncedOnChange with autoSave (nothing is delivered now, the last one
\* stays pending) and to onChange at once without it.
handleLayerChange(q, newLayers) == SetLayers(q, newLayers)

\* the guard of addHistoryAction: may this call record?
Recording == ~(isUndoRedoInProgress \/ isBatchingActions)

\* Faulty variant of RecordHistory: a full log gives up the new action instead
\* of the oldest one (slice(0, MAX_HISTORY_SIZE)).
RecordHistoryKeepsOldest(prev, index, action) ==
    LET newHistory == Slice(prev, 0, index + 1)
        updatedHistory == Append(newHistory, action)
    IN  IF Len(updatedHistory) > MAX_HISTORY_SIZE
        THEN Slice(updatedHistory, 0, MAX_HISTORY_SIZE)
        ELSE updatedHistory

\* Faulty variant of RecordHistory: the redo tail is not cut off.
RecordHistoryKeepsTail(prev, index, action) ==
    LET updatedHistory == Append(prev, action)
    IN  IF Len(updatedHistory) > MAX_HISTORY_SIZE
        THEN Slice(updatedHistory, Len(updatedHistory) - MAX_HISTORY_SIZE,
                   Len(updatedHistory))
        ELSE updatedHistory

\* the setHistory updater of addHistoryAction: prev is the queued log, the
\* index is the historyIndex the closure captured.
RecordHistory(prev, index, action) ==
    LET newHistory == Slice(prev, 0, index + 1)
        updatedHistory == Append(newHistory, action)
    IN  IF Len(updatedHistory) > MAX_HISTORY_SIZE
        THEN Slice(updatedHistory, Len(updatedHistory) - MAX_HISTORY_SIZE,
                   Len(updatedHistory))
        ELSE updatedHistory

\* the setHistoryIndex updater of addHistoryAction
AdvanceIndex(prev) == Min(prev + 1, MAX_HISTORY_SIZE - 1)

\* t is what Date.now() reads
addHistoryAction(q, action, t) ==
    IF ~Recording THEN q
    ELSE [q EXCEPT
            !.history = RecordHistory(q.history, historyIndex,
                            Merge(action, [timestamp |-> t, seq |-> nrec + 1])),
            !.historyIndex = AdvanceIndex(q.historyIndex)]

\* The debounce instance the closures of the last render hold: useCallback
\* keeps the first debounce(...) while onChange is the same function, and takes
\* the one made at the render whenever onChange is a new function (the hook
\* re-renders, and its caller with it, after every handler that set state).
DebounceInstance == IF onChangeStable THEN 0 ELSE total - calls

\* debouncedOnChange(newLayers): the timer of the instance is started, or
\* restarted with the new argument when it is running.
Debounce(pending, newLayers) ==
    LET timer == [layers |-> newLayers, instance |-> DebounceInstance]
    IN  IF pending # <<>> /\ pending[Len(pending)].instance = DebounceInstance
        THEN Append(SubSeq(pending, 1, Len(pending) - 1), timer)
        ELSE Append(pending, timer)

\* One call of the hook ends: arg is the layer id or the orderedIds it was given
\* ("" for none),
\* t the last reading of the clock, q the queued state it leaves, changed the
\* collections it handed to handleLayerChange, threw whether it raised, ret
\* what it returned ("" for nothing), recorded whether it appended to the log,
\* effective whether it got past its early return.
Call(name, arg, t, q, changed, threw, ret, recorded, effective) ==
    /\ queued' = q
    /\ now' = t
    /\ debounced' = IF autoSave /\ changed # <<>>
                    THEN Debounce(debounced, changed[Len(changed)])
                    ELSE debounced
    /\ out' = [op |-> name, arg |-> arg,
               emitted |-> IF autoSave THEN <<>> ELSE changed,
               threw |-> threw, ret |-> ret,
               recorded |-> recorded, effective |-> effective]
    /\ isUndoRedoInProgress' = FALSE
    /\ calls' = calls + 1
    /\ total' = total + 1
    /\ nrec' = IF recorded THEN nrec + 1 ELSE nrec
    /\ nundo' = IF name = "undo" /\ limits.undos >= 0 THEN nundo + 1 ELSE nundo
    /\ run' = RunAfter(name, recorded, effective)
    /\ law' = LawAfter(name, q, recorded, effective)
    /\ sc3' = Sc3After(name)
    /\ UNCHANGED <<layers, selectedLayerId, history, historyIndex,
                   isBatchingActions, autoSave, onChangeStable, limits, canvas>>

\* a call that returned before doing anything
NoOp(name, arg) == Call(name, arg, now, queued, <<>>, FALSE, "", FALSE, FALSE)

----------------------------------------------------------------------------
(* The operations of the hook *)

\* Faulty variant of addLayer: the new layer is put in front.
addLayerPrepends(newLayer, t) ==
    LET id == LayerId(t)
        layer == Merge(newLayer, [id |-> id])
        q1 == SetLayers(queued, <<layer>> \o queued.layers)
        q2 == addHistoryAction(q1, [type |-> "add", layerId |-> id, after |-> layer], t)
        q3 == handleLayerChange(q2, <<layer>> \o layers)
    IN  Call("addLayer", "", t, q3, << <<layer>> \o layers >>, FALSE, id, Recording, TRUE)

\* t is what Date.now() reads at the call
addLayer(newLayer, t) ==
    LET id == LayerId(t)
        layer == Merge(newLayer, [id |-> id])
        q1 == SetLayers(queued, Append(queued.layers, layer))
        q2 == addHistoryAction(q1, [type |-> "add", layerId |-> id, after |-> layer], t)
        q3 == handleLayerChange(q2, Append(layers, layer))
    IN  Call("addLayer", "", t, q3, <<Append(layers, layer)>>, FALSE, id, Recording, TRUE)

\* Faulty variant of removeLayer: the selection is left as it is.
removeLayerKeepsSelection(id) ==
    LET layerToRemove == Find(layers, id)
        updated == FilterOut(queued.layers, id)
        q1 == handleLayerChange(SetLayers(queued, updated), updated)
        q2 == addHistoryAction(q1, [type |-> "remove", layerId |-> id,
                                    before |-> layerToRemove[1]], now)
    IN  IF layerToRemove = <<>> THEN NoOp("removeLayer", id)
        ELSE Call("removeLayer", id, now, q2, <<updated>>, FALSE, "", Recording, TRUE)

\* Faulty variant of removeLayer: no early return for an id that is not found.
removeLayerUnguarded(id) ==
    LET layerToRemove == Find(layers, id)
        updated == FilterOut(queued.layers, id)
        q1 == handleLayerChange(SetLayers(queued, updated), updated)
        q2 == addHistoryAction(q1, [type |-> "remove", layerId |-> id,
                                    before |-> layerToRemove], now)
        q3 == IF selectedLayerId = id THEN [q2 EXCEPT !.selectedLayerId = null] ELSE q2
    IN  Call("removeLayer", id, now, q3, <<updated>>, FALSE, "", Recording, TRUE)

removeLayer(id) ==
    LET layerToRemove == Find(layers, id)
        updated == FilterOut(queued.layers, id)
        q1 == handleLayerChange(SetLayers(queued, updated), updated)
        q2 == addHistoryAction(q1, [type |-> "remove", layerId |-> id,
                                    before |-> layerToRemove[1]], now)
        q3 == IF selectedLayerId = id THEN [q2 EXCEPT !.selectedLayerId = null] ELSE q2
    IN  IF layerToRemove = <<>> THEN NoOp("removeLayer", id)
        ELSE Call("removeLayer", id, now, q3, <<updated>>, FALSE, "", Recording, TRUE)

updateLayer(id, updates) ==
    LET layerToUpdate == Find(layers, id)
        updated == MergeInto(queued.layers, id, updates)
        q1 == handleLayerChange(SetLayers(queued, updated), updated)
        q2 == addHistoryAction(q1, [type |-> "update", layerId |-> id,
                                    before |-> layerToUpdate[1],
                                    after |-> Merge(layerToUpdate[1], updates)], now)
    IN  IF layerToUpdate = <<>> THEN NoOp("updateLayer", id)
        ELSE Call("updateLayer", id, now, q2, <<updated>>, FALSE, "", Recording, TRUE)

\* every layer of the collection gets the position
moveLayerMovesAll(id, position) ==
    LET layerToMove == Find(layers, id)
        updated == [i \in 1..Len(queued.layers) |->
                        Merge(queued.layers[i], [position |-> position])]
        q1 == handleLayerChange(SetLayers(queued, updated), updated)
        q2 == addHistoryAction(q1, [type |-> "move", layerId |-> id,
                                    before |-> [position |-> layerToMove[1].position],
                                    after |-> [position |-> position]], now)
    IN  IF layerToMove = <<>> THEN NoOp("moveLayer", id)
        ELSE Call("moveLayer", id, now, q2, <<updated>>, FALSE, "", Recording, TRUE)

moveLayer(id, position) ==
    LET layerToMove == Find(layers, id)
        updated == MergeInto(queued.layers, id, [position |-> position])
        q1 == handleLayerChange(SetLayers(queued, updated), updated)
        q2 == addHistoryAction(q1, [type |-> "move", layerId |-> id,
                                    before |-> [position |-> layerToMove[1].position],
                                    after |-> [position |-> position]], now)
    IN  IF layerToMove = <<>> THEN NoOp("moveLayer", id)
        ELSE Call("moveLayer", id, now, q2, <<updated>>, FALSE, "", Recording, TRUE)

\* new Map(layers.map(layer => [layer.id, layer])).get(id): of two layers with
\* one id the later one wins; <<>> stands for undefined.
LayerMapGet(ls, id) ==
    IF \E i \in 1..Len(ls) : ls[i].id = id
    THEN <<ls[CHOOSE i \in 1..Len(ls) :
                  ls[i].id = id /\ \A j \in (i + 1)..Len(ls) : ls[j].id # id]>>
    ELSE <<>>

\* Faulty variant of Reordered: the layers keep the zIndex they had.
RECURSIVE ReorderedKeepsZIndex(_, _, _)
ReorderedKeepsZIndex(ls, orderedIds, index) ==
    IF index >= Len(orderedIds) THEN <<>>
    ELSE LET layer == LayerMapGet(ls, orderedIds[index + 1])
         IN  (IF layer = <<>> THEN <<>> ELSE <<layer[1]>>)
             \o ReorderedKeepsZIndex(ls, orderedIds, index + 1)

\* orderedIds.map((id, index) => layer ? { ...layer, zIndex: index } : null)
\*           .filter(layer => layer !== null)
RECURSIVE Reordered(_, _, _)
Reordered(ls, orderedIds, index) ==
    IF index >= Len(orderedIds) THEN <<>>
    ELSE LET layer == LayerMapGet(ls, orderedIds[index + 1])
         IN  (IF layer = <<>> THEN <<>>
              ELSE <<Merge(layer[1], [zIndex |-> index])>>)
             \o Reordered(ls, orderedIds, index + 1)

\* layers.map((layer, index) => ({ ...layer, zIndex: index }))
Renumbered(ls) == [i \in 1..Len(ls) |-> Merge(ls[i], [zIndex |-> i - 1])]

reorderLayers(orderedIds) ==
    LET oldLayers == layers
        updated == Reordered(layers, orderedIds, 0)
        q1 == handleLayerChange(SetLayers(queued, updated), updated)
        q2 == addHistoryAction(q1, [type |-> "reorder",
                                    before |-> [layers |-> oldLayers],
                                    after |-> [layers |-> Renumbered(layers)]], now)
    IN  Call("reorderLayers", orderedIds, now, q2, <<updated>>, FALSE, "", Recording, TRUE)

selectLayer(id) ==
    Call("selectLayer", id, now, [queued EXCEPT !.selectedLayerId = id], <<>>, FALSE, "",
         FALSE, TRUE)

clearLayers ==
    LET oldLayers == layers
        q1 == handleLayerChange(SetLayers(queued, <<>>), <<>>)
        q2 == [q1 EXCEPT !.selectedLayerId = null]
        q3 == addHistoryAction(q2, [type |-> "remove",
                                    before |-> [layers |-> oldLayers]], now)
    IN  Call("clearLayers", "", now, q3, << <<>> >>, FALSE, "", Recording, TRUE)

startBatch ==
    Call("startBatch", "", now, [queued EXCEPT !.isBatchingActions = TRUE], <<>>, FALSE, "",
         FALSE, TRUE)

endBatch ==
    Call("endBatch", "", now, [queued EXCEPT !.isBatchingActions = FALSE], <<>>, FALSE, "",
         FALSE, TRUE)

\* undo's switch: the collection the inverse of `action` makes of prev, in
\* <<...>>, or <<>> when no case applies.
Inverse(action, prev) ==
    IF action.type = "add"
    THEN IF "layerId" \in DOMAIN action
         THEN <<FilterOut(prev, action.layerId)>> ELSE <<>>
    ELSE IF action.type = "remove"
    THEN IF "before" \in DOMAIN action /\ "layerId" \in DOMAIN action
         THEN <<Append(prev, action.before)>> ELSE <<>>
    ELSE IF action.type \in {"update", "move"}
    THEN IF "before" \in DOMAIN action /\ "layerId" \in DOMAIN action
         THEN <<MergeInto(prev, action.layerId, action.before)>> ELSE <<>>
    ELSE IF action.type = "reorder"
    THEN IF "before" \in DOMAIN action /\ "layers" \in DOMAIN action.before
         THEN <<action.before.layers>> ELSE <<>>
    ELSE <<>>

\* redo's switch
Reapply(action, prev) ==
    IF action.type = "add"
    THEN IF "after" \in DOMAIN action
         THEN <<Append(prev, action.after)>> ELSE <<>>
    ELSE IF action.type = "remove"
    THEN IF "layerId" \in DOMAIN action
         THEN <<FilterOut(prev, action.layerId)>> ELSE <<>>
    ELSE IF action.type \in {"update", "move"}
    THEN IF "after" \in DOMAIN action /\ "layerId" \in DOMAIN action
         THEN <<MergeInto(prev, action.layerId, action.after)>> ELSE <<>>
    ELSE IF action.type = "reorder"
    THEN IF "after" \in DOMAIN action /\ "layers" \in DOMAIN action.after
         THEN <<action.after.layers>> ELSE <<>>
    ELSE <<>>

\* the guard of undo: nothing to undo
UndoBlocked == historyIndex < 0

\* the guard of redo: nothing to redo
RedoBlocked == historyIndex >= Len(history) - 1

\* Faulty variant of undo: the undone entry is taken off the log.
undoPopsLog ==
    LET action == At(history, historyIndex)
        updated == Inverse(action[1], queued.layers)
        q1 == IF action = <<>> \/ updated = <<>> THEN queued
              ELSE handleLayerChange(SetLayers(queued, updated[1]), updated[1])
        q2 == [q1 EXCEPT !.historyIndex = @ - 1,
                         !.history = Slice(@, 0, Len(@) - 1)]
    IN  IF UndoBlocked THEN NoOp("undo", "")
        ELSE Call("undo", "", now, q2, IF action = <<>> THEN <<>> ELSE updated,
                  action = <<>>, "", FALSE, TRUE)

\* Faulty variant of undo: no early return when there is nothing to undo.
undoUnguarded ==
    LET action == At(history, historyIndex)
        updated == Inverse(action[1], queued.layers)
        q1 == IF action = <<>> \/ updated = <<>> THEN queued
              ELSE handleLayerChange(SetLayers(queued, updated[1]), updated[1])
        q2 == [q1 EXCEPT !.historyIndex = @ - 1]
    IN  Call("undo", "", now, q2, IF action = <<>> THEN <<>> ELSE updated,
             action = <<>>, "", FALSE, TRUE)

\* Faulty variant of undo: the cursor is not moved back.
undoKeepsCursor ==
    LET action == At(history, historyIndex)
        updated == Inverse(action[1], queued.layers)
        q1 == IF action = <<>> \/ updated = <<>> THEN queued
              ELSE handleLayerChange(SetLayers(queued, updated[1]), updated[1])
    IN  IF UndoBlocked THEN NoOp("undo", "")
        ELSE Call("undo", "", now, q1, IF action = <<>> THEN <<>> ELSE updated,
                  action = <<>>, "", FALSE, TRUE)

\* undo: history[historyIndex] of the closure; when the cursor points outside
\* the log the entry is undefined, action.type raises a TypeError inside the
\* try, and the finally block still moves the cursor.
undo ==
    LET action == At(history, historyIndex)
        updated == Inverse(action[1], queued.layers)
        q1 == IF action = <<>> \/ updated = <<>> THEN queued
              ELSE handleLayerChange(SetLayers(queued, updated[1]), updated[1])
        q2 == [q1 EXCEPT !.historyIndex = @ - 1]
    IN  IF UndoBlocked THEN NoOp("undo", "")
        ELSE Call("undo", "", now, q2, IF action = <<>> THEN <<>> ELSE updated,
                  action = <<>>, "", FALSE, TRUE)

redo ==
    LET action == At(history, historyIndex + 1)
        updated == Reapply(action[1], queued.layers)
        q1 == IF action = <<>> \/ updated = <<>> THEN queued
              ELSE handleLayerChange(SetLayers(queued, updated[1]), updated[1])
        q2 == [q1 EXCEPT !.historyIndex = @ + 1]
    IN  IF RedoBlocked THEN NoOp("redo", "")
        ELSE Call("redo", "", now, q2, IF action = <<>> THEN <<>> ELSE updated,
                  action = <<>>, "", FALSE, TRUE)

----------------------------------------------------------------------------
(* Derived values the hook returns *)

\* Faulty variant of selectedLayer: the id is not looked up in the collection.
selectedLayerUnchecked ==
    IF selectedLayerId # null THEN [id |-> selectedLayerId] ELSE nullLayer

\* selectedLayerId ? layers.find(layer => layer.id === selectedLayerId) || null : null
selectedLayer ==
    IF selectedLayerId # null /\ Find(layers, selectedLayerId) # <<>>
    THEN Find(layers, selectedLayerId)[1]
    ELSE nullLayer

canUndo == historyIndex >= 0

canRedo == historyIndex < Len(history) - 1

----------------------------------------------------------------------------
(* React and the environment *)

Idle == [op |-> "", arg |-> "", emitted |-> <<>>, threw |-> FALSE, ret |-> "",
         recorded |-> FALSE, effective |-> FALSE]

\* React renders: the queued updates become the state the hook returns and
\* its new closures read.
Render ==
    /\ calls > 0
    /\ layers' = queued.layers
    /\ selectedLayerId' = queued.selectedLayerId
    /\ history' = queued.history
    /\ historyIndex' = queued.historyIndex
    /\ isBatchingActions' = queued.isBatchingActions
    /\ calls' = 0
    /\ out' = Idle
    /\ UNCHANGED <<queued, isUndoRedoInProgress, now, autoSave, onChangeStable,
                   debounced, total, limits, nrec, nundo, run, law, sc3, canvas>>

\* the oldest timer of debouncedOnChange expires (between handlers): onChange
\* gets the argument of the last call made to that instance within the window.
DebounceFire ==
    /\ calls = 0
    /\ debounced # <<>>
    /\ out' = [Idle EXCEPT !.op = "debouncedOnChange",
                           !.emitted = <<debounced[1].layers>>]
    /\ debounced' = Tail(debounced)
    /\ UNCHANGED <<layers, selectedLayerId, history, historyIndex, isBatchingActions,
                   queued, isUndoRedoInProgress, now, autoSave, onChangeStable, calls,
                   total, limits, nrec, nundo, run, law, sc3, canvas>>

----------------------------------------------------------------------------
(* CityCanvas: the render effect that paints the layers on the PIXI stage *)

\* CityCanvas before it is mounted
NoCanvas ==
    [mounted |-> FALSE,     \* the component is mounted and isReady
     layers |-> <<>>,       \* its own layers state, taken from initialLayers at mount
     timer |-> FALSE,       \* a debouncedRender is pending
     passes |-> <<>>,       \* the renderLayers calls that await a load
     stage |-> <<>>,        \* the children of the stage, in addChild order
     layersRef |-> {},      \* the sprites of layersRef.current, one per layer id
     textureCache |-> {},   \* the paths textureCache.current holds
     loads |-> <<>>,        \* the paths PIXI.Assets.load was called with, in order
     gen |-> 0,             \* renderLayers calls started
     triggers |-> 0,        \* runs of the render effect
     done |-> <<>>]         \* the renderLayers calls that returned, with the stage they left

\* [...layers].sort((a, b) => a.zIndex - b.zIndex), as the positions of the
\* first n layers of ls: the sort is stable
RECURSIVE SortedPositions(_, _)
SortedPositions(ls, n) ==
    IF n = 0 THEN <<>>
    ELSE LET prev == SortedPositions(ls, n - 1)
         IN SelectSeq(prev, LAMBDA k : ls[k].zIndex <= ls[n].zIndex)
                \o <<n>>
                \o SelectSeq(prev, LAMBDA k : ls[k].zIndex > ls[n].zIndex)

sortedLayers(c) == SortedPositions(c.layers, Len(c.layers))

\* new PIXI.Sprite(texture) for the layer at position pos, made by pass g
Sprite(c, g, pos) ==
    [id |-> c.layers[pos].id, zIndex |-> c.layers[pos].zIndex, pos |-> pos, gen |-> g]

\* stage.addChild(sprite); layersRef.current.set(layer.id, sprite)
AddSprite(c, g, pos) ==
    LET sprite == Sprite(c, g, pos)
    IN [c EXCEPT !.stage = Append(@, sprite),
                 !.layersRef = {s \in @ : s.id # sprite.id} \cup {sprite}]

\* the sprites of layersRef stay on the stage
ClearKeepsChildren(c) ==
    [c EXCEPT !.layersRef = {}]

\* every sprite of layersRef leaves its parent, then layersRef is cleared
ClearSurface(c) ==
    [c EXCEPT !.stage = SelectSeq(@, LAMBDA s : s \notin c.layersRef),
              !.layersRef = {}]

\* no layer is skipped
SkippedNever(layer) == FALSE

\* if (!layer.visible) continue
Skipped(layer) == ~layer.visible

\* the renderLayers call numbered g among those in flight
ThePass(c, g) == CHOOSE p \in {c.passes[k] : k \in 1..Len(c.passes)} : p.gen = g

\* that call, with its loop position or its failed layers updated
SetPass(c, g, p) ==
    [c EXCEPT !.passes = [k \in 1..Len(@) |-> IF @[k].gen = g THEN p ELSE @[k]]]

\* renderLayers returns
Completed(c, g) ==
    [c EXCEPT !.passes = SelectSeq(@, LAMBDA p : p.gen # g),
              !.done = Append(@, [gen |-> g, failed |-> ThePass(c, g).failed,
                                  stage |-> c.stage])]

\* the loop of renderLayers from the i-th sorted layer, up to the next await
\* or to the end
RECURSIVE RunPass(_, _, _)
RunPass(c, g, i) ==
    IF i > Len(sortedLayers(c)) THEN Completed(c, g)
    ELSE LET pos == sortedLayers(c)[i]
             layer == c.layers[pos]
         IN IF Skipped(layer) THEN RunPass(c, g, i + 1)
            ELSE IF layer.texturePath \in c.textureCache
                 THEN RunPass(AddSprite(c, g, pos), g, i + 1)
                 ELSE [SetPass(c, g, [ThePass(c, g) EXCEPT !.at = i])
                          EXCEPT !.loads = Append(@, layer.texturePath)]

\* the rejected load ends the pass
AfterFailureAborts(c, g, i) ==
    Completed(SetPass(c, g, [ThePass(c, g) EXCEPT
                                !.failed = @ \cup {sortedLayers(c)[i]}]), g)

\* catch (error): the error is logged and the loop goes on
AfterFailure(c, g, i) ==
    RunPass(SetPass(c, g, [ThePass(c, g) EXCEPT
                              !.failed = @ \cup {sortedLayers(c)[i]}]), g, i + 1)

\* the awaited load resolved: the texture is cached, the sprite is made
AfterLoad(c, g, i) ==
    LET pos == sortedLayers(c)[i]
    IN RunPass(AddSprite([c EXCEPT !.textureCache = @ \cup {c.layers[pos].texturePath}],
                         g, pos), g, i + 1)

\* CityCanvas mounts and becomes ready: the render effect runs
Mount(initialLayers) ==
    /\ ~canvas.mounted
    /\ canvas' = [NoCanvas EXCEPT !.mounted = TRUE, !.layers = initialLayers,
                                  !.timer = TRUE, !.triggers = 1]
    /\ UNCHANGED hookVars

\* a dependency of the render effect changes (onLayerSelect gets a new
\* identity): the cleanup cancels the pending debouncedRender and the effect
\* schedules a new one; a renderLayers already running is not stopped
Retrigger ==
    /\ canvas.mounted
    /\ canvas.triggers < MaxTriggers
    /\ canvas' = [canvas EXCEPT !.timer = TRUE, !.triggers = @ + 1]
    /\ UNCHANGED hookVars

\* the debounce delay passed: renderLayers starts
StartPass ==
    /\ canvas.mounted
    /\ canvas.timer
    /\ LET g == canvas.gen + 1
           started == [canvas EXCEPT !.timer = FALSE, !.gen = g,
                                     !.passes = Append(@, [gen |-> g, at |-> 0,
                                                           failed |-> {}])]
       IN canvas' = RunPass(ClearSurface(started), g, 1)
    /\ UNCHANGED hookVars

\* PIXI.Assets.load of pass g settles: it resolves (ok) or rejects
LoadDone(g, ok) ==
    /\ \E k \in 1..Len(canvas.passes) : canvas.passes[k].gen = g
    /\ canvas' = IF ok THEN AfterLoad(canvas, g, ThePass(canvas, g).at)
                       ELSE AfterFailure(canvas, g, ThePass(canvas, g).at)
    /\ UNCHANGED hookVars

----------------------------------------------------------------------------
(* Specifications *)

InitialState(initialLayers) ==
    [layers |-> initialLayers, selectedLayerId |-> null, history |-> <<>>,
     historyIndex |-> -1, isBatchingActions |-> FALSE]

Start(initialLayers, save, stable, lim) ==
    /\ layers = initialLayers
    /\ selectedLayerId = null
    /\ history = <<>>
    /\ historyIndex = -1
    /\ isBatchingActions = FALSE
    /\ queued = InitialState(initialLayers)
    /\ isUndoRedoInProgress = FALSE
    /\ now = 0
    /\ autoSave = save
    /\ onChangeStable = stable
    /\ debounced = <<>>
    /\ out = Idle
    /\ calls = 0
    /\ total = 0
    /\ limits = lim
    /\ nrec = 0
    /\ nundo = 0
    /\ run = 0
    /\ law = NoLaw
    /\ sc3 = 0
    /\ canvas = NoCanvas

\* may the running handler make one more call / one more undo?
MayCall == calls < limits.calls /\ total < limits.total

MayUndo == limits.undos < 0 \/ nundo < limits.undos

\* one call of the hook by the embedding application
HookCall ==
    /\ MayCall
    /\ \/ \E newLayer \in LayerSpecs, t \in now..MaxClock :
            addLayer(newLayer, t)
       \/ \E id \in IdInputs : removeLayer(id)
       \/ \E id \in IdInputs, updates \in Updates : updateLayer(id, updates)
       \/ \E id \in IdInputs, position \in Positions : moveLayer(id, position)
       \/ \E orderedIds \in OrderInputs : reorderLayers(orderedIds)
       \/ \E id \in IdInputs \cup {null} : selectLayer(id)
       \/ clearLayers
       \/ MayUndo /\ undo
       \/ redo
       \/ startBatch
       \/ endBatch

\* without autoSave debouncedOnChange is never called: no timer runs
Next == HookCall \/ Render

\* with autoSave the timer of debouncedOnChange is part of the environment
NextSave == HookCall \/ Render \/ DebounceFire

\* the hook as a library: a handler may call it MaxCalls times before React renders
Init == Start(<<>>, FALSE, TRUE, [calls |-> MaxCalls, total |-> MaxTotal, undos |-> -1])

Spec == Init /\ [][Next]_vars

\* the hook as src/src/components/CityBuilder.tsx drives it: every handler makes
\* one call, and React renders before the next event
InitSeq == Start(<<>>, FALSE, TRUE, [calls |-> 1, total |-> MaxTotal, undos |-> -1])

SpecSeq == InitSeq /\ [][Next]_vars

\* the same with the option autoSave, and an onChange that is one function
\* throughout or a new function at every render
InitSave ==
    \E stable \in BOOLEAN :
        Start(<<>>, TRUE, stable, [calls |-> 1, total |-> MaxTotal, undos |-> -1])

SpecSave == InitSave /\ [][NextSave]_vars

\* the capacity of the log: one layer from initialLayers, moved again and
\* again, one call per handler, with at most MaxCapUndos undo calls
InitialLayer == Merge(CHOOSE newLayer \in LayerSpecs : TRUE, [id |-> LayerId(0)])

InitCap == Start(<<InitialLayer>>, FALSE, TRUE,
                 [calls |-> 1, total |-> MaxCapTotal, undos |-> MaxCapUndos])

NextCap ==
    \/ /\ MayCall
       /\ \/ moveLayer(LayerId(0), Position2)
          \/ MayUndo /\ undo
          \/ redo
    \/ Render

SpecCap == InitCap /\ [][NextCap]_vars

\* the hook called with any value its parameter types admit, one call per
\* handler
InitAny == Start(<<>>, FALSE, TRUE, [calls |-> 1, total |-> MaxAnyTotal, undos |-> -1])

NextAny ==
    \/ /\ MayCall
       /\ \/ \E newLayer \in AnyLayerSpecs, t \in now..MaxClock :
               addLayer(newLayer, t)
          \/ \E id \in IdInputs, updates \in AnyUpdates : updateLayer(id, updates)
          \/ MayUndo /\ undo
          \/ redo
    \/ Render

SpecAny == InitAny /\ [][NextAny]_vars

\* the hook given two layers as initialLayers, one call per handler
SecondLayer ==
    Merge(CHOOSE newLayer \in LayerSpecs : TRUE, [id |-> LayerId(1), zIndex |-> 1])

InitTwo == Start(<<InitialLayer, SecondLayer>>, FALSE, TRUE,
                 [calls |-> 1, total |-> MaxTwoTotal, undos |-> -1])

SpecTwo == InitTwo /\ [][Next]_vars

\* the resource paths of the layers
Paths == {"/a.svg", "/b.svg"}

\* the collections CityCanvas is mounted with: two layers
Snapshots ==
    {<<Merge(InitialLayer, [texturePath |-> p1, visible |-> v1, zIndex |-> z1]),
       Merge(SecondLayer, [texturePath |-> p2, visible |-> v2, zIndex |-> z2])>> :
        <<p1, v1, z1, p2, v2, z2>> \in
            Paths \X BOOLEAN \X {0, 1} \X Paths \X BOOLEAN \X {0, 1}}

\* CityCanvas alone: its effect may run again at any time
InitCanvas == Start(<<>>, FALSE, TRUE, [calls |-> 0, total |-> 0, undos |-> -1])

NextCanvas ==
    \/ \E initialLayers \in Snapshots : Mount(initialLayers)
    \/ Retrigger
    \/ StartPass
    \/ \E g \in 1..MaxTriggers, ok \in BOOLEAN : LoadDone(g, ok)

SpecCanvas == InitCanvas /\ [][NextCanvas]_vars

\* CityCanvas alone, its effect running again only when no renderLayers is
\* in flight
NextCanvasSeq ==
    \/ \E initialLayers \in Snapshots : Mount(initialLayers)
    \/ canvas.passes = <<>> /\ Retrigger
    \/ StartPass
    \/ \E g \in 1..MaxTriggers, ok \in BOOLEAN : LoadDone(g, ok)

SpecCanvasSeq == InitCanvas /\ [][NextCanvasSeq]_vars

\* CityBuilder: the hook with one layer, and CityCanvas mounted with
\* initialLayers={layers} and onLayerSelect={selectLayer}, which keeps its
\* identity, so that the render effect runs at mount only
InitApp == Start(<<InitialLayer>>, FALSE, TRUE,
                 [calls |-> 1, total |-> MaxAppTotal, undos |-> -1])

NextApp ==
    \/ Mount(layers)
    \/ canvas.mounted /\ HookCall
    \/ Render
    \/ StartPass
    \/ \E ok \in BOOLEAN : LoadDone(1, ok)

SpecApp == InitApp /\ [][NextApp]_vars

----------------------------------------------------------------------------
(* Properties *)

SingleActions == { "addLayer", "removeLayer", "updateLayer", "moveLayer" }

DistinctIds(ls) ==
    \A i \in 1..Len(ls), j \in 1..Len(ls) : i # j => ls[i].id # ls[j].id

\* C1: when one recorded addLayer, removeLayer, updateLayer or moveLayer has
\* taken the collection from S to S' and undo() is called right after it, the
\* collection is S again, the same layers in the same order.  (Stated for
\* collections whose ids are pairwise distinct.)
UndoRestoresCollection ==
    (/\ law.stage = 2
     /\ law.op \in SingleActions
     /\ DistinctIds(law.pre)
     /\ DistinctIds(law.post))
        => queued.layers = law.pre

\* C2: when one recorded action has taken the collection to S', undo() has
\* been called and then redo(), the collection is S' again and historyIndex
\* has the value it had after the action.
RedoRestoresCollection ==
    (law.stage = 3 /\ law.op \in SingleActions)
        => (queued.layers = law.post /\ queued.historyIndex = law.hi)

\* C3: the log never holds more than MAX_HISTORY_SIZE entries; after more than
\* MAX_HISTORY_SIZE recordings in a row it holds exactly the MAX_HISTORY_SIZE
\* most recent actions, and historyIndex points at the last of them.
LogHoldsMostRecent ==
    /\ Len(history) <= MAX_HISTORY_SIZE
    /\ Len(queued.history) <= MAX_HISTORY_SIZE
    /\ run > MAX_HISTORY_SIZE =>
        /\ Len(queued.history) = MAX_HISTORY_SIZE
        /\ \A i \in 1..MAX_HISTORY_SIZE :
              queued.history[i].seq = nrec - MAX_HISTORY_SIZE + i
        /\ queued.historyIndex = MAX_HISTORY_SIZE - 1

LogHoldsMostRecentWitness ==
    /\ run > MAX_HISTORY_SIZE
    /\ nrec > run
    /\ out.recorded

\* C4: after any sequence of calls, back-to-back calls included, the cursor is
\* valid: -1 <= historyIndex <= Len(history) - 1.
CursorValid ==
    /\ historyIndex >= -1
    /\ historyIndex <= Len(history) - 1

\* C5: an action recorded while historyIndex is below the end of the log cuts
\* the entries above the cursor off, is appended, and moves the cursor up by
\* one; after any recording the new action is the last entry and the cursor
\* points at it (canRedo is false).
RecordTruncatesRedoTail ==
    (out.recorded /\ calls = 1) =>
        /\ Len(queued.history) > 0
        /\ queued.history[Len(queued.history)].seq = nrec
        /\ queued.historyIndex = Len(queued.history) - 1
        /\ historyIndex < Len(history) - 1 =>
            /\ Len(queued.history) = historyIndex + 2
            /\ SubSeq(queued.history, 1, historyIndex + 1)
                 = SubSeq(history, 1, historyIndex + 1)
            /\ queued.historyIndex = historyIndex + 1

RecordTruncatesRedoTailWitness ==
    /\ out.recorded
    /\ calls = 1
    /\ historyIndex >= 0
    /\ historyIndex < Len(history) - 1

\* C6: scenario 3: from an empty hook, addLayer(X); addLayer(Y); undo(); undo()
\* leaves the collection empty, canUndo false and canRedo true.
Scenario3 ==
    (sc3 = 4 /\ calls = 0) => (layers = <<>> /\ ~canUndo /\ canRedo)

Scenario3Witness ==
    /\ sc3 = 4
    /\ calls = 0
    /\ Len(history) = 2

\* C7: selectedLayer is null or a layer whose id is in the collection.
SelectedLayerPresent ==
    \/ selectedLayer = nullLayer
    \/ \E i \in 1..Len(layers) : layers[i].id = selectedLayer.id

SelectedLayerPresentWitness ==
    /\ selectedLayerId # null
    /\ layers # <<>>
    /\ Find(layers, selectedLayerId) = <<>>
    /\ selectedLayer = nullLayer

\* C8: between startBatch() and endBatch() no mutation records: every mutating
\* call made after startBatch() and before endBatch(), the one made right
\* after startBatch() included, leaves the log and historyIndex as they were.
BatchSuppressesRecording ==
    [][(/\ queued.isBatchingActions
        /\ total' = total + 1
        /\ out'.op \in Mutators)
          => (/\ queued'.history = queued.history
              /\ queued'.historyIndex = queued.historyIndex)]_vars

\* C9: undo() called when historyIndex < 0 and redo() called when
\* historyIndex >= Len(history) - 1 change nothing (collection, selection,
\* log, historyIndex), deliver nothing to onChange and raise no error.
UndoRedoAtBoundsAreNoOps ==
    [][(/\ total' = total + 1
        /\ \/ out'.op = "undo" /\ historyIndex < 0
           \/ out'.op = "redo" /\ historyIndex >= Len(history) - 1)
          => (/\ queued' = queued
              /\ ~out'.threw
              /\ out'.emitted = <<>>
              /\ debounced' = debounced)]_vars

UndoRedoAtBoundsWitness ==
    /\ out.op = "undo"
    /\ ~out.effective
    /\ historyIndex < 0
    /\ history # <<>>

\* C10: removeLayer, updateLayer and moveLayer called with an id that is not
\* in the collection change nothing and do not invoke onChange.
UnknownIdIsNoOp ==
    [][(/\ total' = total + 1
        /\ out'.op \in {"removeLayer", "updateLayer", "moveLayer"}
        /\ Find(layers, out'.arg) = <<>>)
          => (/\ queued' = queued
              /\ ~out'.threw
              /\ out'.emitted = <<>>
              /\ debounced' = debounced)]_vars

UnknownIdIsNoOpWitness ==
    /\ out.op = "removeLayer"
    /\ ~out.effective
    /\ layers # <<>>
    /\ Find(layers, out.arg) = <<>>

\* C11: when clearLayers() has emptied a non-empty collection S and undo() is
\* called right after it, the collection is S again.
UndoRestoresCleared ==
    (/\ law.stage = 2
     /\ law.op = "clearLayers"
     /\ law.pre # <<>>
     /\ DistinctIds(law.pre))
        => queued.layers = law.pre

\* C12: in every reachable state the layers of the collection have pairwise
\* distinct ids.
LayerIdsUnique ==
    /\ DistinctIds(layers)
    /\ DistinctIds(queued.layers)

\* C13: addLayer appends exactly one layer, carrying the id it returns, at the
\* end of the collection: the length grows by one and the layers that were
\* there are untouched; the selection is unchanged; unless batching suppresses
\* the recording, canUndo is true afterwards.
AddLayerAppends ==
    (out.op = "addLayer" /\ calls = 1) =>
        /\ Len(queued.layers) = Len(layers) + 1
        /\ SubSeq(queued.layers, 1, Len(layers)) = layers
        /\ queued.layers[Len(queued.layers)].id = out.ret
        /\ queued.selectedLayerId = selectedLayerId
        /\ ~isBatchingActions => queued.historyIndex >= 0

AddLayerAppendsWitness ==
    /\ out.op = "addLayer"
    /\ calls = 1
    /\ layers # <<>>
    /\ layers[1].id # out.ret
    /\ selectedLayerId # null
    /\ ~isBatchingActions

\* C14: removeLayer(id) of a layer that is in the collection sets the selection
\* to null when the selection was id and leaves it unchanged when it was
\* another id or null.
RemoveLayerClearsSelection ==
    (/\ out.op = "removeLayer"
     /\ calls = 1
     /\ Find(layers, out.arg) # <<>>)
        => queued.selectedLayerId =
              IF selectedLayerId = out.arg THEN null ELSE selectedLayerId

RemoveLayerClearsSelectionWitness ==
    /\ out.op = "removeLayer"
    /\ calls = 1
    /\ Find(layers, out.arg) # <<>>
    /\ selectedLayerId = out.arg
    /\ queued.selectedLayerId = null

Ids(ls) == { ls[i].id : i \in 1..Len(ls) }

\* C16: reorderLayers(orderedIds) gives every layer of the collection that
\* orderedIds lists the zIndex of its place in orderedIds (counted from 0), so
\* that reorderLayers([idB, idA]) yields zIndex(idB) < zIndex(idA).
ReorderSetsZIndex ==
    (out.op = "reorderLayers" /\ calls = 1) =>
        \A k \in 1..Len(out.arg) :
            Find(layers, out.arg[k]) # <<>> =>
                /\ \E i \in 1..Len(queued.layers) :
                      /\ queued.layers[i].id = out.arg[k]
                      /\ queued.layers[i].zIndex = k - 1
                /\ (\A m \in 1..Len(out.arg) : m # k => out.arg[m] # out.arg[k]) =>
                      \A i \in 1..Len(queued.layers) :
                          queued.layers[i].id = out.arg[k] =>
                              queued.layers[i].zIndex = k - 1

ReorderSetsZIndexWitness ==
    /\ out.op = "reorderLayers"
    /\ calls = 1
    /\ Len(out.arg) = 2
    /\ Len(layers) = 2
    /\ layers[1].id # layers[2].id
    /\ out.arg = <<layers[2].id, layers[1].id>>
    /\ queued.layers[1].zIndex < queued.layers[2].zIndex

\* C17: reorderLayers(orderedIds) keeps every layer whose id orderedIds omits,
\* with its zIndex and all its other fields, and the collection has the same
\* set of ids before and after the call.
ReorderKeepsOmitted ==
    (out.op = "reorderLayers" /\ calls = 1) =>
        /\ Ids(queued.layers) = Ids(layers)
        /\ \A i \in 1..Len(layers) :
              (\A k \in 1..Len(out.arg) : out.arg[k] # layers[i].id) =>
                  \E j \in 1..Len(queued.layers) : queued.layers[j] = layers[i]

\* C19: without autoSave every mutating call that gets past its guard
\* (addLayer, reorderLayers, clearLayers; removeLayer, updateLayer, moveLayer of
\* a layer in the collection; undo with historyIndex >= 0; redo below the end
\* of the log) invokes onChange, and the collection it hands to onChange is
\* the collection as it stands after the call.
OnChangeAfterMutation ==
    [][(/\ total' = total + 1
        /\ ~autoSave
        /\ \/ out'.op \in {"addLayer", "reorderLayers", "clearLayers"}
           \/ /\ out'.op \in {"removeLayer", "updateLayer", "moveLayer"}
              /\ Find(layers, out'.arg) # <<>>
           \/ out'.op = "undo" /\ historyIndex >= 0
           \/ out'.op = "redo" /\ historyIndex < Len(history) - 1)
          => (/\ out'.emitted # <<>>
              /\ out'.emitted[Len(out'.emitted)] = queued'.layers)]_vars

\* C15: updateLayer(id, partial) of a layer in the collection changes neither
\* the id nor the type of any layer, whatever fields partial has: the layer at
\* each position has the id and the type it had before.
UpdateKeepsIdentity ==
    (/\ out.op = "updateLayer"
     /\ calls = 1
     /\ Find(layers, out.arg) # <<>>)
        => /\ Len(queued.layers) = Len(layers)
           /\ \A i \in 1..Len(layers) :
                 /\ queued.layers[i].id = layers[i].id
                 /\ queued.layers[i].type = layers[i].type

\* C18: the layer addLayer stores has scale > 0 and 0 <= opacity <= 1,
\* whatever the spec it was given.
AddLayerStoresValid ==
    (out.op = "addLayer" /\ calls = 1) =>
        LET layer == queued.layers[Len(queued.layers)]
        IN  /\ layer.scale > 0
            /\ layer.opacity >= 0
            /\ layer.opacity <= 1

\* C20: with autoSave no call of the hook invokes onChange itself; the calls
\* made within one debounce window are coalesced: when the timer expires
\* onChange is invoked once, with the collection as it stands, and no other
\* invocation remains pending.
DebouncedDelivery ==
    [][/\ (total' = total + 1 /\ autoSave) => out'.emitted = <<>>
       /\ (out'.op = "debouncedOnChange" /\ debounced' # debounced) =>
            /\ out'.emitted = <<queued.layers>>
            /\ debounced' = <<>>]_vars

\* C28: when reorderLayers(orderedIds) has taken the collection to S' and
\* undo() is called right after it, the collection is the one before the
\* reorder; after a redo() right after that it is S' again, each layer with
\* the zIndex reorderLayers gave it.  (Stated for orderedIds that list every
\* layer of a collection with pairwise distinct ids.)
ReorderRoundTrip ==
    (/\ law.op = "reorderLayers"
     /\ DistinctIds(law.pre)
     /\ DistinctIds(law.post)
     /\ Ids(law.pre) = Ids(law.post))
        => /\ law.stage = 2 => queued.layers = law.pre
           /\ law.stage = 3 => queued.layers = law.post

\* C29: undo() and redo() that get past their guard leave the log as it is,
\* move historyIndex by exactly -1 and +1, leave the selection and the
\* batching flag alone, and the reentrancy flag is false when they return.
UndoRedoKeepLog ==
    [][(/\ total' = total + 1
        /\ \/ out'.op = "undo" /\ historyIndex >= 0
           \/ out'.op = "redo" /\ historyIndex < Len(history) - 1)
          => (/\ queued'.history = queued.history
              /\ queued'.historyIndex =
                    queued.historyIndex + (IF out'.op = "undo" THEN -1 ELSE 1)
              /\ queued'.selectedLayerId = queued.selectedLayerId
              /\ queued'.isBatchingActions = queued.isBatchingActions
              /\ ~isUndoRedoInProgress')]_vars

UndoRedoKeepLogWitness ==
    /\ out.op = "undo"
    /\ out.effective
    /\ Len(queued.history) = 2
    /\ queued.historyIndex = 0
    /\ queued.layers # layers

\* C30: two addLayer calls made back to back in one handler, before React
\* renders, act like two calls made one after the other: both new layers are
\* in the collection, the log has two more 'add' actions and historyIndex has
\* advanced by two.
BackToBackAdds ==
    [][(/\ calls = 1
        /\ out.op = "addLayer"
        /\ total' = total + 1
        /\ out'.op = "addLayer"
        /\ ~isBatchingActions
        /\ historyIndex = Len(history) - 1)
          => (/\ Len(queued'.layers) = Len(layers) + 2
              /\ Len(queued'.history) = Len(history) + 2
              /\ queued'.historyIndex = historyIndex + 2)]_vars

----------------------------------------------------------------------------
(* CityCanvas: the claims on the render effect *)

\* the sprites of the stage made for the layer id
CountOnStage(stage, id) == Cardinality({k \in 1..Len(stage) : stage[k].id = id})

\* the last renderLayers call that returned
LastDone == canvas.done[Len(canvas.done)]

\* the last renderLayers call started has returned and no other is in flight
PassCompleted ==
    /\ canvas.done # <<>>
    /\ canvas.passes = <<>>
    /\ LastDone.gen = canvas.gen

\* C21: once the store's collection has changed and everything pending has
\* run (the mutation is rendered, no debouncedRender is pending, no
\* renderLayers is in flight, no load failed), the stage holds sprites for
\* exactly the visible layers of the store's collection.
StoreReachesSurface ==
    (/\ canvas.mounted /\ calls = 0 /\ ~canvas.timer
     /\ PassCompleted /\ LastDone.failed = {})
        => {canvas.stage[k].id : k \in 1..Len(canvas.stage)}
               = {layers[k].id : k \in {j \in 1..Len(layers) : layers[j].visible}}

\* C22: when renderLayers returns with every load resolved and no other call
\* in flight, the stage holds exactly one sprite for each visible layer of the
\* collection and none for a hidden layer or for a layer not in it.
PassPaintsVisibleLayers ==
    (PassCompleted /\ LastDone.failed = {})
        => /\ \A pos \in 1..Len(canvas.layers) :
                CountOnStage(canvas.stage, canvas.layers[pos].id)
                    = IF canvas.layers[pos].visible THEN 1 ELSE 0
           /\ \A k \in 1..Len(canvas.stage) :
                \E pos \in 1..Len(canvas.layers) :
                    canvas.layers[pos].id = canvas.stage[k].id

PassPaintsVisibleLayersWitness ==
    /\ PassCompleted /\ LastDone.failed = {}
    /\ Len(canvas.done) = 2
    /\ canvas.layers[1].visible /\ ~canvas.layers[2].visible
    /\ Len(canvas.stage) = 1

\* C23: once no renderLayers call is in flight, every sprite on the stage was
\* made by the call started last, and no layer has two sprites: a superseded
\* call's late completions left nothing.
LateCompletionsDiscarded ==
    (canvas.done # <<>> /\ canvas.passes = <<>>)
        => /\ \A k \in 1..Len(canvas.stage) : canvas.stage[k].gen = canvas.gen
           /\ \A pos \in 1..Len(canvas.layers) :
                CountOnStage(canvas.stage, canvas.layers[pos].id) <= 1

\* C24: once no renderLayers call is in flight, the sprites are on the stage
\* in ascending zIndex, and for equal zIndex in the order of the collection,
\* whatever the order in which the loads settled.
PaintOrderAscending ==
    (canvas.done # <<>> /\ canvas.passes = <<>>)
        => \A i, j \in 1..Len(canvas.stage) :
              i < j => \/ canvas.stage[i].zIndex < canvas.stage[j].zIndex
                       \/ /\ canvas.stage[i].zIndex = canvas.stage[j].zIndex
                          /\ canvas.stage[i].pos <= canvas.stage[j].pos

\* C25: as long as no load has failed, PIXI.Assets.load has been called at
\* most once for each resource path, over all layers and all renderLayers
\* calls, overlapping ones included.
LoadIssuedOnce ==
    (/\ \A k \in 1..Len(canvas.done) : canvas.done[k].failed = {}
     /\ \A k \in 1..Len(canvas.passes) : canvas.passes[k].failed = {})
        => \A p \in Paths :
              Cardinality({k \in 1..Len(canvas.loads) : canvas.loads[k] = p}) <= 1

\* C26: when renderLayers returns after a load failed and no other call is in
\* flight, the layer whose load failed has no sprite and every other visible
\* layer has exactly one: the failure did not end the pass.
FailedLoadSkipsLayerOnly ==
    (PassCompleted /\ LastDone.failed # {})
        => \A pos \in {k \in 1..Len(canvas.layers) : canvas.layers[k].visible} :
              CountOnStage(canvas.stage, canvas.layers[pos].id)
                  = IF pos \in LastDone.failed THEN 0 ELSE 1

FailedLoadSkipsLayerOnlyWitness ==
    /\ PassCompleted
    /\ LastDone.failed = {sortedLayers(canvas)[1]}
    /\ Len(canvas.stage) = 1
    /\ canvas.stage[1].pos = sortedLayers(canvas)[2]

\* C27: two consecutive renderLayers calls on the same collection, each run
\* alone and with the same loads failing (none, usually), leave the same set
\* of sprite ids and the same number of sprites on the stage.
ReconcileIdempotent ==
    \A k \in 2..Len(canvas.done) :
        canvas.done[k - 1].failed = canvas.done[k].failed
            => /\ {canvas.done[k].stage[i].id : i \in 1..Len(canvas.done[k].stage)}
                    = {canvas.done[k - 1].stage[i].id :
                           i \in 1..Len(canvas.done[k - 1].stage)}
               /\ Len(canvas.done[k].stage) = Len(canvas.done[k - 1].stage)

ReconcileIdempotentWitness ==
    /\ Len(canvas.done) = 2
    /\ canvas.done[1].failed = {} /\ canvas.done[2].failed = {}
    /\ Len(canvas.done[1].stage) = 2
    /\ canvas.done[2].stage[1].gen = 2

----------------------------------------------------------------------------
(* moveLayer, and removeLayer undone *)

\* C31: moveLayer(id, p) that finds the layer leaves the collection that
\* updateLayer(id, {position: p}) leaves: the layers of that id get position p
\* and keep every other field, every other layer is the same, the order, the
\* number of layers and the selection are unchanged.
MoveLayerChangesPositionOnly ==
    [][(total' = total + 1 /\ out'.op = "moveLayer" /\ out'.effective)
          => \E p \in Positions :
               /\ queued'.layers = [k \in 1..Len(queued.layers) |->
                                       IF queued.layers[k].id = out'.arg
                                       THEN Merge(queued.layers[k], [position |-> p])
                                       ELSE queued.layers[k]]
               /\ Len(queued'.layers) = Len(queued.layers)
               /\ \A k \in 1..Len(queued.layers) :
                     /\ DOMAIN queued'.layers[k] = DOMAIN queued.layers[k]
                     /\ \A f \in DOMAIN queued.layers[k] \ {"position"} :
                           queued'.layers[k][f] = queued.layers[k][f]
                     /\ queued'.layers[k].position
                           = IF queued.layers[k].id = out'.arg
                             THEN p ELSE queued.layers[k].position
               /\ queued'.selectedLayerId = queued.selectedLayerId]_vars

MoveLayerChangesPositionOnlyWitness ==
    /\ out.op = "moveLayer" /\ out.effective /\ out.arg = "layer_0"
    /\ Len(layers) = 2 /\ Len(queued.layers) = 2
    /\ layers[1].position = Position1 /\ queued.layers[1].position = Position2
    /\ queued.layers[2].position = Position1
    /\ queued.selectedLayerId = "layer_0"

\* C32: when one recorded removeLayer(id) of a present layer has taken the
\* collection from S and undo() is called right after it, the collection
\* holds the same layers as S with the same field values, and as many: the
\* removed layer is back with its id and fields, and none is duplicated or
\* lost.
RemoveUndoRestoresLayers ==
    (law.stage = 2 /\ law.op = "removeLayer")
        => /\ {queued.layers[k] : k \in 1..Len(queued.layers)}
                = {law.pre[k] : k \in 1..Len(law.pre)}
           /\ Len(queued.layers) = Len(law.pre)

====
